---------------------------- MODULE Spec2Model ----------------------------
(***************************************************************************)
(* Model of backend/latex_generator.py (class LatexGenerator): the         *)
(* conversion of worksheets into LaTeX longtables.                         *)
(*                                                                         *)
(* Python strings are sequences of one-character strings.  A cell value    *)
(* (None, a str or an int) is a record [kind, s]: s is the text of a str   *)
(* and the decimal digits of an int.  Lengths in centimetres are integers  *)
(* in units of 0.001 cm.                                                   *)
(***************************************************************************)
EXTENDS Integers, Sequences, FiniteSets, TLC

VARIABLES pc, text, escaped, ws, config, latex, wb, latex_files, error

vars == <<pc, text, escaped, ws, config, latex, wb, latex_files, error>>

(***************************************************************************)
(* Bounds of the checked instances.                                        *)
(***************************************************************************)
MaxLen == 3
MaxRows == 2
MaxW == 40
MaxSheets == 2

(***************************************************************************)
(* Python values and str methods.                                          *)
(***************************************************************************)
None == [kind |-> "none", s |-> <<>>]
Str(s) == [kind |-> "str", s |-> s]
Int0 == [kind |-> "int", s |-> <<"0">>]
Int7 == [kind |-> "int", s |-> <<"7">>]

\* bool(v): None, "" and 0 are falsy
Truthy(v) == \/ v.kind = "str" /\ v.s # <<>>
             \/ v.kind = "int" /\ v.s # <<"0">>

\* str(v)
PyStr(v) == IF v.kind = "none" THEN <<"N", "o", "n", "e">> ELSE v.s

\* the bullet character U+2022, one element of a string like any other character
Bullet == "U+2022"
Whitespace == {" ", "\n", "\t"}

RECURSIVE lstrip(_)
lstrip(s) == IF s # <<>> /\ Head(s) \in Whitespace THEN lstrip(Tail(s)) ELSE s

RECURSIVE rstrip(_)
rstrip(s) ==
  IF s # <<>> /\ s[Len(s)] \in Whitespace THEN rstrip(SubSeq(s, 1, Len(s) - 1)) ELSE s

\* s.strip()
strip(s) == rstrip(lstrip(s))

\* s.replace(old, new) for a one-character old
RECURSIVE replace(_, _, _)
replace(s, old, new) ==
  IF s = <<>> THEN <<>>
  ELSE (IF Head(s) = old THEN new ELSE <<Head(s)>>) \o replace(Tail(s), old, new)

\* s.split(sep) for a one-character sep: the list of the pieces between the separators
RECURSIVE split(_, _)
split(s, sep) ==
  IF \A i \in 1..Len(s) : s[i] # sep THEN <<s>>
  ELSE LET i == CHOOSE k \in 1..Len(s) : s[k] = sep /\ \A j \in 1..(k - 1) : s[j] # sep
       IN  <<SubSeq(s, 1, i - 1)>> \o split(SubSeq(s, i + 1, Len(s)), sep)

\* sep.join(items)
RECURSIVE join(_, _)
join(sep, items) ==
  IF items = <<>> THEN <<>>
  ELSE IF Len(items) = 1 THEN items[1]
  ELSE items[1] \o sep \o join(sep, Tail(items))

(***************************************************************************)
(* escape_latex                                                            *)
(***************************************************************************)
TextBackslash == <<"\\", "t", "e", "x", "t", "b", "a", "c", "k", "s", "l", "a", "s", "h", "{", "}">>
TextTilde == <<"\\", "t", "e", "x", "t", "a", "s", "c", "i", "i", "t", "i", "l", "d", "e", "{", "}">>
TextCircum == <<"\\", "t", "e", "x", "t", "a", "s", "c", "i", "i", "c", "i", "r", "c", "u", "m", "{", "}">>
NewlineSep == <<" ", "\\", "n", "e", "w", "l", "i", "n", "e", " ">>

\* the substitutions of _escape_chars, in the order of the chain
EscapeTable ==
  << <<"\\", TextBackslash>>,
     <<"&", <<"\\", "&">> >>,
     <<"%", <<"\\", "%">> >>,
     <<"$", <<"\\", "$">> >>,
     <<"#", <<"\\", "#">> >>,
     <<"_", <<"\\", "_">> >>,
     <<"{", <<"\\", "{">> >>,
     <<"}", <<"\\", "}">> >>,
     <<"~", TextTilde>>,
     <<"^", TextCircum>> >>

RECURSIVE ReplaceChain(_, _)
ReplaceChain(s, i) ==
  IF i > Len(EscapeTable) THEN s
  ELSE ReplaceChain(replace(s, EscapeTable[i][1], EscapeTable[i][2]), i + 1)

escape_chars(s) == ReplaceChain(s, 1)

RECURSIVE BulletItems(_)
BulletItems(pieces) ==
  IF pieces = <<>> THEN <<>>
  ELSE (IF strip(Head(pieces)) # <<>> THEN <<strip(Head(pieces))>> ELSE <<>>)
       \o BulletItems(Tail(pieces))

EscapedItems(items) == [i \in 1..Len(items) |-> <<Bullet, " ">> \o escape_chars(items[i])]

HasBullet(s) == \E i \in 1..Len(s) : s[i] = Bullet

escape_latex_nl(v) ==
  IF ~Truthy(v) THEN <<>>
  ELSE LET text_str == replace(PyStr(v), "\n", <<" ">>)
       IN  IF HasBullet(text_str)
           THEN join(NewlineSep, EscapedItems(BulletItems(split(text_str, Bullet))))
           ELSE escape_chars(text_str)

escape_latex(v) ==
  IF ~Truthy(v) THEN <<>>
  ELSE LET text_str == PyStr(v)
       IN  IF HasBullet(text_str)
           THEN join(NewlineSep,
                     EscapedItems(BulletItems(split(replace(text_str, "\n", <<" ">>), Bullet))))
           ELSE escape_chars(text_str)

(***************************************************************************)
(* process_worksheet: column selection and width planning.                 *)
(*                                                                         *)
(* config is [excluded_columns, total_table_width, column_widths]:         *)
(* total_table_width is <<>> when the key is absent (None) and <<w>> for   *)
(* the number w; column_widths is a function from the keys it holds to     *)
(* widths.  font_size only selects a word of the fixed preamble and is     *)
(* left out.                                                               *)
(***************************************************************************)
all_letters == <<"A", "B", "C", "D", "E", "F", "G", "H", "I">>
Letters == {all_letters[i] : i \in 1..Len(all_letters)}

\* zero-based index of a column letter
col_letter_to_index(letter) == (CHOOSE i \in 1..Len(all_letters) : all_letters[i] = letter) - 1

RECURSIVE FilterLetters(_, _)
FilterLetters(ls, excluded) ==
  IF ls = <<>> THEN <<>>
  ELSE (IF Head(ls) \notin excluded THEN <<Head(ls)>> ELSE <<>>)
       \o FilterLetters(Tail(ls), excluded)

final_letters(cfg) == FilterLetters(all_letters, cfg.excluded_columns)

\* fl is final_letters
final_indices(fl) == [k \in 1..Len(fl) |-> col_letter_to_index(fl[k])]

use_auto_distribution(cfg) == cfg.total_table_width # <<>>

\* widths.get(key, default)
Get(widths, key, default) == IF key \in DOMAIN widths THEN widths[key] ELSE default

DefaultTotalWidth == 15600

\* number of final letters inside / outside {"A", "B"}
n_AB(fl) == Cardinality({k \in 1..Len(fl) : fl[k] \in {"A", "B"}})
n_others(fl) == Cardinality({k \in 1..Len(fl) : fl[k] \notin {"A", "B"}})

WeightUnweighted(nab, nothers) == nab + nothers

\* the divisor of the auto-distribution formula
Weight(nab, nothers) == 3 * nab + nothers

\* A float of the width computation is the exact fraction num/den (of 0.001 cm).
w_others(cfg, fl) ==
  LET total_width == IF cfg.total_table_width[1] # 0
                     THEN cfg.total_table_width[1] ELSE DefaultTotalWidth
      d == Weight(n_AB(fl), n_others(fl))
  IN  IF d > 0 THEN [num |-> total_width, den |-> d]
      ELSE IF Len(fl) > 0 THEN [num |-> total_width, den |-> Len(fl)]
      ELSE [num |-> 1000, den |-> 1]

Twice(w) == [num |-> 2 * w.num, den |-> w.den]

\* 3 * w_others
Triple(w) == [num |-> 3 * w.num, den |-> w.den]

w_AB(cfg, fl) ==
  IF Weight(n_AB(fl), n_others(fl)) > 0 THEN Triple(w_others(cfg, fl)) ELSE w_others(cfg, fl)

\* w lies exactly halfway between two multiples of 0.01 cm
Halfway(w) == 2 * (w.num % (10 * w.den)) = 10 * w.den

Fmt2Truncating(w, up) == 10 * (w.num \div (10 * w.den))

\* f"{w:.2f}": w rounded to a multiple of 0.01 cm.  A value exactly halfway between
\* two multiples goes where the binary double nearest to it lies, up or down (up).
Fmt2(w, up) ==
  LET q == w.num \div (10 * w.den)
      r == w.num % (10 * w.den)
  IN  IF 2 * r < 10 * w.den THEN 10 * q
      ELSE IF 2 * r > 10 * w.den THEN 10 * (q + 1)
      ELSE IF up THEN 10 * (q + 1) ELSE 10 * q

\* A column specification: m{<width>cm}, centred for the columns other than A and B.
ColSpec(centered, width) == [centered |-> centered, width |-> width]

COLUMN_WIDTHS(cfg, fl, ties) ==
  IF use_auto_distribution(cfg)
  THEN LET ab == ColSpec(FALSE, Fmt2(w_AB(cfg, fl), ties.ab))
           others == ColSpec(TRUE, Fmt2(w_others(cfg, fl), ties.others))
       IN  [l \in {fl[k] : k \in 1..Len(fl)} |-> IF l \in {"A", "B"} THEN ab ELSE others]
  ELSE [l \in {"A", "B", "C"} |->
          IF l = "A" THEN ColSpec(FALSE, Get(cfg.column_widths, "A", 6700))
          ELSE IF l = "B" THEN ColSpec(FALSE, Get(cfg.column_widths, "B", 4000))
          ELSE ColSpec(TRUE, Get(cfg.column_widths, "C", 2000))]

\* the width summed for final letter l; cw is COLUMN_WIDTHS
width_value(cfg, cw, l) ==
  IF use_auto_distribution(cfg) THEN cw[l].width
  ELSE IF l \in {"A", "B"} THEN Get(cfg.column_widths, l, 4000)
  ELSE Get(cfg.column_widths, "C", 2000)

RECURSIVE total_width(_, _, _)
total_width(cfg, cw, ls) ==
  IF ls = <<>> THEN 0 ELSE width_value(cfg, cw, Head(ls)) + total_width(cfg, cw, Tail(ls))

\* total_width_str, without its unit
total_width_str(cfg, fl, cw, ties) ==
  Fmt2([num |-> total_width(cfg, cw, fl), den |-> 1], ties.total)

tabular_parts(cfg, fl, cw) ==
  [k \in 1..Len(fl) |->
     IF use_auto_distribution(cfg) THEN cw[fl[k]]
     ELSE IF fl[k] \in {"A", "B"} THEN cw[fl[k]]
     ELSE cw["C"]]

(***************************************************************************)
(* process_worksheet: the title, the headers and the row stream.           *)
(*                                                                         *)
(* ws is [title, headers, rows]: the value of A1, the values of row 2 by   *)
(* letter, and the tuples iter_rows(min_row=3, values_only=True) yields,   *)
(* all as long as the sheet is wide.                                       *)
(***************************************************************************)
TableWord == <<"T", "a", "b", "l", "e">>
ColumnWord(l) == <<"C", "o", "l", "u", "m", "n", " ", l>>
RowColor == <<"\\", "r", "o", "w", "c", "o", "l", "o", "r", "{",
              "h", "e", "a", "d", "e", "r", "c", "o", "l", "o", "r", "}">>
FieldSep == <<" ", "&", " ">>
RowEnd == <<" ", "\\">>

header_title(sheet) == IF Truthy(sheet.title) THEN escape_latex(sheet.title) ELSE TableWord

headers(sheet, fl) ==
  [k \in 1..Len(fl) |->
     IF Truthy(sheet.headers[fl[k]]) THEN escape_latex(sheet.headers[fl[k]])
     ELSE escape_latex(Str(ColumnWord(fl[k])))]

cell_not_none(cell) == cell.kind # "none"

\* cell is not None and str(cell).strip()
cell_has_content(cell) == cell.kind # "none" /\ strip(PyStr(cell)) # <<>>

\* [row[i] if i < len(row) else None for i in final_indices]; fi is final_indices
original_filtered(row, fi) ==
  [k \in 1..Len(fi) |-> IF fi[k] < Len(row) THEN row[fi[k] + 1] ELSE None]

\* orig is original_filtered
row_has_content(orig) == \E k \in 1..Len(orig) : cell_has_content(orig[k])

\* [escaped[i] for i in final_indices] raises IndexError when an index is not below len(row)
filtered_raises(row, fi) == \E k \in 1..Len(fi) : fi[k] >= Len(row)

filtered(row, fi) == [k \in 1..Len(fi) |-> escape_latex(row[fi[k] + 1])]

has_content_only_in_first(orig, excluded) ==
  /\ Len(orig) > 0
  /\ cell_has_content(orig[1])
  /\ \A k \in 2..Len(orig) : ~cell_has_content(orig[k])

has_content_only_in_A(orig, excluded) ==
  /\ "A" \notin excluded
  /\ cell_has_content(orig[1])
  /\ \A k \in 2..Len(orig) : ~cell_has_content(orig[k])

body_row_sole_cell(row, fi, excluded) ==
  IF has_content_only_in_A(original_filtered(row, fi), excluded)
  THEN RowColor \o filtered(row, fi)[1] \o RowEnd
  ELSE join(FieldSep, filtered(row, fi)) \o RowEnd

\* the line appended to body_rows for a row that is not skipped
body_row(row, fi, excluded) ==
  IF has_content_only_in_A(original_filtered(row, fi), excluded)
  THEN RowColor \o join(FieldSep, filtered(row, fi)) \o RowEnd
  ELSE join(FieldSep, filtered(row, fi)) \o RowEnd

\* The loop over the data rows: the lines appended, or the exception raised.
RECURSIVE body_rows(_, _, _)
body_rows(rows, fi, excluded) ==
  IF rows = <<>> THEN [error |-> "", lines |-> <<>>]
  ELSE IF ~row_has_content(original_filtered(Head(rows), fi))
       THEN body_rows(Tail(rows), fi, excluded)
  ELSE IF filtered_raises(Head(rows), fi) THEN [error |-> "IndexError", lines |-> <<>>]
  ELSE LET rest == body_rows(Tail(rows), fi, excluded)
       IN  IF rest.error # "" THEN rest
           ELSE [error |-> "", lines |-> <<body_row(Head(rows), fi, excluded)>> \o rest.lines]

NoLatex ==
  [error |-> "", ncols |-> 0, tabular_spec |-> <<>>, total_width_str |-> 0,
   header_title |-> <<>>, headers |-> <<>>, body_rows |-> <<>>]

\* The parts of the returned table that vary; error names the exception when the
\* call raises instead of returning.
process_worksheet(sheet, cfg, ties) ==
  LET fl == final_letters(cfg)
      cw == COLUMN_WIDTHS(cfg, fl, ties)
      body == body_rows(sheet.rows, final_indices(fl), cfg.excluded_columns)
  IN  IF body.error # "" THEN [NoLatex EXCEPT !.error = body.error]
      ELSE [error |-> "",
            ncols |-> Len(fl),
            tabular_spec |-> tabular_parts(cfg, fl, cw),
            total_width_str |-> total_width_str(cfg, fl, cw, ties),
            header_title |-> header_title(sheet),
            headers |-> headers(sheet, fl),
            body_rows |-> body.lines]

\* Which way each formatted width goes when it is exactly halfway: a choice only
\* for the widths of cfg that are halfway.
Choices(w) == IF Halfway(w) THEN BOOLEAN ELSE {FALSE}

Ties(cfg) ==
  LET fl == final_letters(cfg)
  IN  IF use_auto_distribution(cfg)
      THEN [ab : Choices(w_AB(cfg, fl)), others : Choices(w_others(cfg, fl)), total : {FALSE}]
      ELSE [ab : {FALSE}, others : {FALSE},
            total : Choices([num |-> total_width(cfg, <<>>, fl), den |-> 1])]

(***************************************************************************)
(* sanitize_filename and process_excel.                                    *)
(*                                                                         *)
(* wb is the opened workbook: its sheets in workbook order, each           *)
(* [name, sheet].  latex_files is a function from file names to tables.    *)
(***************************************************************************)
UnsafeChars == {"<", ">", ":", "\"", "/", "\\", "|", "?", "*"}

\* re.sub(r'[<>:"/\\|?*]', '_', name)
sub_unsafe(name) == [i \in 1..Len(name) |-> IF name[i] \in UnsafeChars THEN "_" ELSE name[i]]

\* re.sub(r'\s+', '_', s): every maximal run of whitespace becomes one underscore
RECURSIVE sub_whitespace_runs(_)
sub_whitespace_runs(s) ==
  IF s = <<>> THEN <<>>
  ELSE IF Head(s) \in Whitespace THEN <<"_">> \o sub_whitespace_runs(lstrip(s))
  ELSE <<Head(s)>> \o sub_whitespace_runs(Tail(s))

sanitize_filename(name) == sub_whitespace_runs(strip(sub_unsafe(name)))

TexSuffix == <<".", "t", "e", "x">>

\* latex_files[filename] = latex_content
Put(files, filename, content) ==
  [f \in (DOMAIN files) \cup {filename} |-> IF f = filename THEN content ELSE files[f]]

\* The loop over wb.sheetnames from sheet i on, with the mapping built so far.
RECURSIVE process_sheets(_, _, _, _, _)
process_sheets(book, i, cfg, ties, files) ==
  IF i > Len(book) THEN [error |-> "", files |-> files]
  ELSE LET latex_content == process_worksheet(book[i].sheet, cfg, ties)
           filename == sanitize_filename(book[i].name) \o TexSuffix
       IN  IF latex_content.error # ""
           THEN [error |-> "Error processing Excel file", files |-> <<>>]
           ELSE process_sheets(book, i + 1, cfg, ties, Put(files, filename, latex_content))

process_excel(book, cfg, ties) == process_sheets(book, 1, cfg, ties, <<>>)

(***************************************************************************)
(* Inputs of escape_latex: every string over Chars up to MaxLen, and the   *)
(* non-string values a cell can hold.                                      *)
(***************************************************************************)
SpecialChars == {"\\", "&", "%", "$", "#", "_", "{", "}", "~", "^"}
Chars == SpecialChars \cup {"a", " ", "\n", Bullet}

Strings == UNION {[1..n -> Chars] : n \in 0..MaxLen}

TextValues == {Str(s) : s \in Strings} \cup {None, Int0, Int7}

(***************************************************************************)
(* Inputs of process_worksheet.                                            *)
(***************************************************************************)
X == <<"x">>
YAmp == <<"y", "&">>
Blank == <<" ">>
Z == <<"z">>

NoHeaders == [l \in Letters |-> None]
SomeHeaders == [l \in Letters |-> IF l \in {"A", "F"} THEN Str(<<"h", "_">>) ELSE None]

\* a row of a sheet ncols wide, with cells in columns A, B and F
MakeRow(a, b, f, ncols) ==
  [i \in 1..ncols |-> IF i = 1 THEN a ELSE IF i = 2 THEN b ELSE IF i = 6 THEN f ELSE None]

SheetRows(ncols) ==
  {MakeRow(a, b, f, ncols) : a \in {None, Str(X)},
                             b \in {None, Str(YAmp)},
                             f \in {None, Str(Blank), Int0}}

\* a titled sheet nine columns (A-I) wide and an untitled sheet three columns (A-C)
\* wide, each with up to MaxRows data rows
Worksheets ==
  UNION {[title : {Str(<<"T", "%">>)}, headers : {SomeHeaders}, rows : [1..n -> SheetRows(9)]]
         \cup [title : {None}, headers : {NoHeaders}, rows : [1..n -> SheetRows(3)]] :
           n \in 0..MaxRows}

ExclusionFamily ==
  {ab \cup rest : ab \in SUBSET {"A", "B"},
                  rest \in {{}, {"C", "D", "E"}, {"C", "D", "E", "F", "G", "H", "I"}}}

MainWidths == [l \in {"A", "B", "C"} |-> IF l = "C" THEN 2000 ELSE 4000]

SheetConfigs ==
  [excluded_columns : ExclusionFamily, total_table_width : {<<>>}, column_widths : {MainWidths}]

\* the column_widths mappings: each of the keys A, B, C absent or set
PartialWidths ==
  UNION {[keys -> {2500, 4000}] : keys \in SUBSET {"A", "B", "C"}}

WidthConfigs ==
  [excluded_columns : SUBSET Letters,
   total_table_width : {<<w>> : w \in (0..MaxW) \cup {100 * k : k \in 1..MaxW}
                                       \cup {DefaultTotalWidth}},
   column_widths : {MainWidths}]
  \cup
  [excluded_columns : SUBSET Letters, total_table_width : {<<>>}, column_widths : PartialWidths]

OneRowSheet ==
  [title |-> Str(<<"T">>), headers |-> NoHeaders,
   rows |-> <<MakeRow(Str(X), None, Str(Z), 9)>>]

(***************************************************************************)
(* Inputs of process_excel.                                                *)
(***************************************************************************)
SheetNames ==
  {<<"a">>, <<"a", " ", "b">>, <<"a", "_", "b">>, <<"a", " ", " ", "b">>,
   <<"a", "<", "b">>, <<" ", "b">>}

EmptySheet == [title |-> None, headers |-> NoHeaders, rows |-> <<>>]
NarrowSheet ==
  [title |-> Str(<<"N">>), headers |-> SomeHeaders,
   rows |-> <<MakeRow(None, None, None, 3), MakeRow(Str(X), Str(YAmp), None, 3)>>]

BookSheets == {EmptySheet, NarrowSheet, OneRowSheet}

Workbooks ==
  {book \in UNION {[1..n -> [name : SheetNames, sheet : BookSheets]] : n \in 1..MaxSheets} :
     \A i, j \in 1..Len(book) : i # j => book[i].name # book[j].name}

ExcelConfigs ==
  [excluded_columns : {{"B", "C", "D", "E"}, {"D", "E", "F", "G", "H", "I"}, Letters},
   total_table_width : {<<>>, <<DefaultTotalWidth>>},
   column_widths : {MainWidths}]

(***************************************************************************)
(* The calls.  pc names the call in progress and is "done" once it has     *)
(* returned or raised.                                                     *)
(***************************************************************************)
InitEscape ==
  /\ pc = "escape_latex"
  /\ text \in TextValues
  /\ escaped = <<>>
  /\ ws = EmptySheet /\ config \in {c \in SheetConfigs : c.excluded_columns = {}}
  /\ latex = NoLatex
  /\ wb = <<>> /\ latex_files = <<>> /\ error = ""

InitSheet ==
  /\ pc = "process_worksheet"
  /\ ws \in Worksheets
  /\ config \in SheetConfigs
  /\ latex = NoLatex
  /\ text = None /\ escaped = <<>>
  /\ wb = <<>> /\ latex_files = <<>> /\ error = ""

InitWidth ==
  /\ pc = "process_worksheet"
  /\ ws = OneRowSheet
  /\ config \in WidthConfigs
  /\ latex = NoLatex
  /\ text = None /\ escaped = <<>>
  /\ wb = <<>> /\ latex_files = <<>> /\ error = ""

InitExcel ==
  /\ pc = "process_excel"
  /\ wb \in Workbooks
  /\ config \in ExcelConfigs
  /\ latex_files = <<>> /\ error = ""
  /\ ws = EmptySheet /\ latex = NoLatex
  /\ text = None /\ escaped = <<>>

Init == InitEscape \/ InitSheet \/ InitWidth \/ InitExcel

EscapeLatex ==
  /\ pc = "escape_latex"
  /\ pc' = "done"
  /\ escaped' = escape_latex(text)
  /\ UNCHANGED <<text, ws, config, latex, wb, latex_files, error>>

ProcessWorksheet ==
  /\ pc = "process_worksheet"
  /\ pc' = "done"
  /\ \E ties \in Ties(config) : latex' = process_worksheet(ws, config, ties)
  /\ UNCHANGED <<text, escaped, ws, config, wb, latex_files, error>>

ProcessExcel ==
  /\ pc = "process_excel"
  /\ pc' = "done"
  /\ \E ties \in Ties(config) :
       LET result == process_excel(wb, config, ties)
       IN  /\ latex_files' = result.files
           /\ error' = result.error
  /\ UNCHANGED <<text, escaped, ws, config, latex, wb>>

Next == EscapeLatex \/ ProcessWorksheet \/ ProcessExcel

Spec == Init /\ [][Next]_vars
SpecEscape == InitEscape /\ [][EscapeLatex]_vars
SpecSheet == InitSheet /\ [][ProcessWorksheet]_vars
SpecWidth == InitWidth /\ [][ProcessWorksheet]_vars
SpecExcel == InitExcel /\ [][ProcessExcel]_vars

\* s contains none of the ten LaTeX-special characters
Safe(s) == \A i \in 1..Len(s) : s[i] \notin SpecialChars

\* C8: escaping the one-character string of a special character yields exactly the
\* sequence the substitution table maps that character to.
C8_SingleCharEscape ==
  \A i \in 1..Len(EscapeTable) :
    (pc = "done" /\ text = Str(<<EscapeTable[i][1]>>)) => escaped = EscapeTable[i][2]

\* C9 as stated: escape_latex is the identity on every string without special
\* characters, bullets included, and escaping the result again changes nothing.
C9_IdentityOnSafe ==
  (pc = "done" /\ text.kind = "str" /\ Safe(text.s))
    => (escaped = text.s /\ escape_latex(Str(escaped)) = escaped)

\* C9 amended: escape_latex is the identity on every string that contains neither a
\* special character nor the bullet character, and escaping the result again
\* changes nothing.
C9_IdentityOnSafeNoBullet ==
  (pc = "done" /\ text.kind = "str" /\ Safe(text.s) /\ ~HasBullet(text.s))
    => (escaped = text.s /\ escape_latex(Str(escaped)) = escaped)

C9_Witness ==
  /\ pc = "done" /\ text.kind = "str" /\ Safe(text.s) /\ ~HasBullet(text.s)
  /\ Len(text.s) >= 2
  /\ \E i \in 1..Len(text.s) : text.s[i] = "\n"
  /\ escaped = text.s

(***************************************************************************)
(* The properties of the row stream (SpecSheet).                           *)
(***************************************************************************)
\* the cell of a row under a column letter; None where the row is too short
CellAt(row, l) ==
  LET i == CHOOSE k \in 1..Len(all_letters) : all_letters[k] = l
  IN  IF i <= Len(row) THEN row[i] ELSE None

\* a cell is non-empty: not None and not blank after trimming
NonEmpty(cell) ==
  cell.kind # "none" /\ \E i \in 1..Len(PyStr(cell)) : PyStr(cell)[i] \notin Whitespace

Participating(cfg) == Letters \ cfg.excluded_columns

\* a row with at least one non-empty participating cell
Qualifies(row, cfg) == \E l \in Participating(cfg) : NonEmpty(CellAt(row, l))

\* the subsequence of the qualifying rows
RECURSIVE Kept(_, _)
Kept(rows, cfg) ==
  IF rows = <<>> THEN <<>>
  ELSE (IF Qualifies(Head(rows), cfg) THEN <<Head(rows)>> ELSE <<>>) \o Kept(Tail(rows), cfg)

\* every data row carries a cell for all nine columns
FullWidth(sheet) == \A r \in 1..Len(sheet.rows) : Len(sheet.rows[r]) = Len(all_letters)

\* a line that starts with the row-colour marker
IsHeaderRow(line) ==
  Len(line) >= Len(RowColor) /\ SubSeq(line, 1, Len(RowColor)) = RowColor

\* only column A, participating, is non-empty among the participating cells
OnlyAHasContent(row, cfg) ==
  /\ "A" \in Participating(cfg)
  /\ NonEmpty(CellAt(row, "A"))
  /\ \A l \in Participating(cfg) \ {"A"} : ~NonEmpty(CellAt(row, l))

\* number of field separators in a line
CountSep(line) ==
  Cardinality({i \in 1..(Len(line) - 2) : SubSeq(line, i, i + 2) = FieldSep})

Returned == pc = "done" /\ latex.error = ""

\* C1: on a sheet whose rows all have nine cells, the body is exactly the
\* subsequence of the rows with a non-empty participating cell, each rendered once,
\* in sheet order.
C1_RowSkipLaw ==
  (pc = "done" /\ FullWidth(ws)) =>
    /\ latex.error = ""
    /\ Len(latex.body_rows) = Len(Kept(ws.rows, config))
    /\ \A k \in 1..Len(latex.body_rows) :
         latex.body_rows[k] =
           body_row(Kept(ws.rows, config)[k], final_indices(final_letters(config)),
                    config.excluded_columns)

C1_Witness ==
  /\ Returned /\ FullWidth(ws)
  /\ Len(latex.body_rows) >= 1
  /\ Len(latex.body_rows) < Len(ws.rows)
  /\ \E r \in 1..Len(ws.rows) :
       /\ ~Qualifies(ws.rows[r], config)
       /\ \E l \in Participating(config) : CellAt(ws.rows[r], l).kind # "none"

\* C2: an emitted row carries the row-colour marker exactly when column A
\* participates and is the only participating column with content.
C2_HeaderIffOnlyA ==
  Returned =>
    /\ Len(latex.body_rows) = Len(Kept(ws.rows, config))
    /\ \A k \in 1..Len(latex.body_rows) :
         IsHeaderRow(latex.body_rows[k]) <=> OnlyAHasContent(Kept(ws.rows, config)[k], config)

C2_Witness ==
  /\ Returned
  /\ \E k \in 1..Len(latex.body_rows) : IsHeaderRow(latex.body_rows[k])
  /\ \E k \in 1..Len(latex.body_rows) :
       /\ ~IsHeaderRow(latex.body_rows[k])
       /\ NonEmpty(CellAt(Kept(ws.rows, config)[k], "A"))
       /\ "A" \in Participating(config)

\* C5 as stated: a section-header row is the marker and the escaped content of
\* column A alone, without field separators.
C5_HeaderSoleCell ==
  Returned =>
    \A k \in 1..Len(latex.body_rows) :
      IsHeaderRow(latex.body_rows[k]) =>
        /\ k <= Len(Kept(ws.rows, config))
        /\ CountSep(latex.body_rows[k]) = 0
        /\ latex.body_rows[k] =
             RowColor \o escape_latex(CellAt(Kept(ws.rows, config)[k], "A")) \o RowEnd

\* the text of a cell that is None or a blank string
BlankText(cell) == IF cell.kind = "str" THEN cell.s ELSE <<>>

\* C5 amended: a section-header row is the marker and one cell per participating
\* column joined by the field separator: the escaped content of column A, then a
\* blank cell for every other participating column (n - 1 separators for n columns).
C5_HeaderAllCells ==
  Returned =>
    \A k \in 1..Len(latex.body_rows) :
      IsHeaderRow(latex.body_rows[k]) =>
        /\ k <= Len(Kept(ws.rows, config))
        /\ CountSep(latex.body_rows[k]) = latex.ncols - 1
        /\ LET row == Kept(ws.rows, config)[k]
               fl == final_letters(config)
               cells == [j \in 1..Len(fl) |->
                           IF fl[j] = "A" THEN escape_latex(CellAt(row, "A"))
                           ELSE BlankText(CellAt(row, fl[j]))]
           IN  latex.body_rows[k] = RowColor \o join(FieldSep, cells) \o RowEnd

C5_Witness ==
  /\ Returned
  /\ latex.ncols >= 3
  /\ \E k \in 1..Len(latex.body_rows) :
       /\ IsHeaderRow(latex.body_rows[k])
       /\ CountSep(latex.body_rows[k]) = latex.ncols - 1
       /\ \E l \in Participating(config) \ {"A"} :
            CellAt(Kept(ws.rows, config)[k], l).kind = "str"

(***************************************************************************)
(* The properties of the widths (SpecWidth).                               *)
(***************************************************************************)
Abs(x) == IF x < 0 THEN -x ELSE x

\* the sum of the widths in a column specification
RECURSIVE SumSpec(_)
SumSpec(spec) == IF spec = <<>> THEN 0 ELSE Head(spec).width + SumSpec(Tail(spec))

\* a returned auto-distribution call with a positive total width and a column
AutoCase ==
  /\ Returned
  /\ use_auto_distribution(config)
  /\ config.total_table_width[1] > 0
  /\ latex.ncols > 0

\* C4: the total width in the title banners is the sum of the widths in the
\* column specification.
C4_TotalIsSumOfSpec ==
  Returned => latex.total_width_str = SumSpec(latex.tabular_spec)

\* C6 as stated: in auto-distribution the emitted widths sum to the reported total,
\* which is within 0.01 cm of total_table_width.
C6_ConservationHundredth ==
  AutoCase =>
    /\ latex.total_width_str = SumSpec(latex.tabular_spec)
    /\ Abs(SumSpec(latex.tabular_spec) - config.total_table_width[1]) <= 10

\* C6 amended: in auto-distribution the emitted widths sum to the reported total,
\* which is within 0.005 cm per participating column of total_table_width.
C6_ConservationPerColumn ==
  AutoCase =>
    /\ latex.total_width_str = SumSpec(latex.tabular_spec)
    /\ Abs(SumSpec(latex.tabular_spec) - config.total_table_width[1]) <= 5 * latex.ncols

C6_Witness ==
  /\ AutoCase
  /\ latex.ncols = Len(all_letters)
  /\ Abs(SumSpec(latex.tabular_spec) - config.total_table_width[1]) > 10

\* a returned auto-distribution call with an A/B column and another column
RatioCase ==
  /\ AutoCase
  /\ \E i \in 1..Len(latex.tabular_spec) : ~latex.tabular_spec[i].centered
  /\ \E j \in 1..Len(latex.tabular_spec) : latex.tabular_spec[j].centered

\* C7 as stated: every emitted A/B width is exactly 3 times every other emitted width.
C7_RatioExact ==
  RatioCase =>
    \A i, j \in 1..Len(latex.tabular_spec) :
      (~latex.tabular_spec[i].centered /\ latex.tabular_spec[j].centered) =>
        latex.tabular_spec[i].width = 3 * latex.tabular_spec[j].width

\* C7 amended: every emitted A/B width is within 0.02 cm of 3 times every other
\* emitted width.
C7_RatioWithinRounding ==
  RatioCase =>
    \A i, j \in 1..Len(latex.tabular_spec) :
      (~latex.tabular_spec[i].centered /\ latex.tabular_spec[j].centered) =>
        Abs(latex.tabular_spec[i].width - 3 * latex.tabular_spec[j].width) <= 20

C7_Witness ==
  /\ RatioCase
  /\ \E i, j \in 1..Len(latex.tabular_spec) :
       /\ ~latex.tabular_spec[i].centered /\ latex.tabular_spec[j].centered
       /\ latex.tabular_spec[j].width > 0
       /\ Abs(latex.tabular_spec[i].width - 3 * latex.tabular_spec[j].width) = 10

C10_NoSheetLost ==
  (pc = "done" /\ error = "") =>
    /\ Cardinality(DOMAIN latex_files) = Len(wb)
    /\ \A i \in 1..Len(wb) :
         /\ (sanitize_filename(wb[i].name) \o TexSuffix) \in DOMAIN latex_files
         /\ \E ties \in Ties(config) :
              latex_files[sanitize_filename(wb[i].name) \o TexSuffix]
                = process_worksheet(wb[i].sheet, config, ties)

=============================================================================
